---------------------------- MODULE Spec2Model ----------------------------
(***************************************************************************)
(* Image preview proxy of the portfolio site.                              *)
(*                                                                         *)
(* Two handlers exist for GET /api/postimg:                                *)
(*   "strict" : src/app/api/postimg/route.ts (JSON errors, 8 s timeout,    *)
(*              Promise.race against the caller's abort)                   *)
(*   "image"  : src/unnamed/part_000 lines 1-123 (always an image, cache,  *)
(*              one retry after a 150 ms delay)                            *)
(*                                                                         *)
(* Specifications:                                                         *)
(*   Spec        both handlers, one page, every kind of url parameter      *)
(*   SpecLive    Spec with timers that fire                                *)
(*   SpecKeys    the image handler and two pages                           *)
(*   SpecErrors  both handlers and every shape of fetch/read error         *)
(*   SpecExtract extractOgImage alone, over generated pages                *)
(*   SpecLoading the LoadingScreen component of the page (part_000 lines   *)
(*               208-321) under its parent Home                            *)
(*   SpecLoadingLive  SpecLoading with timers and effects that run         *)
(*                                                                         *)
(* One step of the model is one run-to-completion job of the JavaScript    *)
(* event loop: a handler runs from one await to the next without           *)
(* interleaving, and promise continuations (microtasks) run before the     *)
(* next event is taken.                                                    *)
(***************************************************************************)
EXTENDS Integers, Sequences, FiniteSets, TLC

VARIABLES variant, now, ticks, cache, req, last, page, extracted, screen

vars == <<variant, now, ticks, cache, req, last, page, extracted, screen>>

(***************************************************************************)
(* Bounds of the model.                                                    *)
(***************************************************************************)
MaxReq == 2
MaxTicks == 2
MaxX == 2
FullLen == 3
MaxRenders == 2

Requests == 1..MaxReq

(***************************************************************************)
(* Program constants.                                                      *)
(***************************************************************************)
CACHE_TTL_MS == 1000 * 60 * 60 * 24

AllowedHost == "postimg.cc"

(***************************************************************************)
(* The url query parameter.  kind "missing" is searchParams.get() = null,  *)
(* kind "text" is a string made of a scheme, a host and a path, each       *)
(* possibly empty ("" with all three empty is the empty string).           *)
(***************************************************************************)
UrlInputs ==
  { [kind |-> "missing", scheme |-> "", host |-> "", path |-> ""],
    [kind |-> "text", scheme |-> "", host |-> "", path |-> ""],
    [kind |-> "text", scheme |-> "", host |-> "postimg.cc", path |-> "/abc123"],
    [kind |-> "text", scheme |-> "https:", host |-> "", path |-> ""],
    [kind |-> "text", scheme |-> "https:", host |-> "postimg.cc", path |-> ""],
    [kind |-> "text", scheme |-> "HTTPS:", host |-> "POSTIMG.CC", path |-> "/"],
    [kind |-> "text", scheme |-> "https:", host |-> "i.postimg.cc", path |-> "/abc123"],
    [kind |-> "text", scheme |-> "https:", host |-> "www.postimg.cc", path |-> "/abc123"],
    [kind |-> "text", scheme |-> "https:", host |-> "evil.example.com", path |-> "/abc123"] }

\* String.prototype.toLowerCase on the strings the model uses.
ToLower(s) ==
  CASE s = "HTTPS:" -> "https:"
    [] s = "POSTIMG.CC" -> "postimg.cc"
    [] s = "HTTPS://I.POSTIMG.CC" -> "https://i.postimg.cc"
    [] s = "ABORTED" -> "aborted"
    [] s = "PROPERTY=" -> "property="
    [] s = "CONTENT=" -> "content="
    [] s = "OG:IMAGE" -> "og:image"
    [] OTHER -> s

\* !url : null and the empty string are falsy.
IsMissing(u) == u.kind = "missing" \/ (u.scheme = "" /\ u.host = "" /\ u.path = "")

\* new URL(url) succeeds: an absolute URL needs a scheme, and an https URL
\* needs a non-empty host.
ParseOk(u) == u.scheme # "" /\ u.host # ""

\* parsed.hostname : the host, lower-cased by the URL parser.
Hostname(u) == ToLower(u.host)

\* parsed.toString() : the serialised URL; scheme and host lower-cased, an
\* empty path serialised as "/".
Href(u) == <<ToLower(u.scheme), Hostname(u), IF u.path = "" THEN "/" ELSE u.path>>

HostAllowedSuffix(u) ==
  Hostname(u) \in {"postimg.cc", "i.postimg.cc", "www.postimg.cc"}

\* parsed.hostname !== "postimg.cc" negated.
HostAllowed(u) == Hostname(u) = AllowedHost

ValidateHostFirst(u) ==
  IF IsMissing(u) THEN "missing"
  ELSE IF Hostname(u) # AllowedHost THEN "host"
  ELSE IF ~ParseOk(u) THEN "invalid"
  ELSE "ok"

\* The three validation steps of GET, in the order of the code.
Validate(u) ==
  IF IsMissing(u) THEN "missing"
  ELSE IF ~ParseOk(u) THEN "invalid"
  ELSE IF ~HostAllowed(u) THEN "host"
  ELSE "ok"

\* Two pages of postimg.cc, for the runs that are about the keys of the
\* cache.
KeyInputs ==
  { [kind |-> "text", scheme |-> "https:", host |-> "postimg.cc", path |-> ""],
    [kind |-> "text", scheme |-> "https:", host |-> "postimg.cc", path |-> "/abc123"] }

Keys ==
  { Href(u) : u \in { v \in UrlInputs \cup KeyInputs : Validate(v) = "ok" } }

(***************************************************************************)
(* Markup.  A document is a sequence of tokens; every token stands for a   *)
(* run of characters, chosen so that a literal of the two regular          *)
(* expressions of extractOgImage can only match a whole token:             *)
(*   "dq" is the double quote, "sq" the single quote, "gt" is >,           *)
(*   "og:image" followed by ":width" is the property og:image:width.       *)
(***************************************************************************)
NoImg == <<>>

Max(S) == CHOOSE x \in S : \A y \in S : y <= x
Min(S) == CHOOSE x \in S : \A y \in S : x <= y

IsQuote(t) == t \in {"dq", "sq"}

\* End of the longest run of [^"'] tokens that starts at s (s - 1: no run).
RunEnd(h, s) ==
  LET E == { e \in s..Len(h) : \A k \in s..e : ~IsQuote(h[k]) }
  IN IF E = {} THEN s - 1 ELSE Max(E)

\* [^>]* can cover h[a..b].
NoGt(h, a, b) == \A k \in a..b : h[k] # "gt"

\* property=["']og:image["'] matches at i (flag i: any letter case).
PropAt(h, i) ==
  /\ i + 3 <= Len(h)
  /\ ToLower(h[i]) = "property="
  /\ IsQuote(h[i + 1])
  /\ ToLower(h[i + 2]) = "og:image"
  /\ IsQuote(h[i + 3])

\* content=["']([^"']+)["'] matches at j; the greedy group takes the whole
\* run, a shorter one is never followed by a quote.
ContentAt(h, j) ==
  /\ j + 1 <= Len(h)
  /\ ToLower(h[j]) = "content="
  /\ IsQuote(h[j + 1])
  /\ RunEnd(h, j + 2) >= j + 2
  /\ RunEnd(h, j + 2) + 1 <= Len(h)

Capture(h, j) == SubSeq(h, j + 2, RunEnd(h, j + 2))

\* Positions of content= that complete a match of the first expression
\* started at i.
After1(h, i) ==
  { j \in (i + 4)..Len(h) : NoGt(h, i + 4, j - 1) /\ ContentAt(h, j) }

Starts1(h) == { i \in 1..Len(h) : PropAt(h, i) /\ After1(h, i) # {} }

Starts2(h) ==
  { i \in 1..Len(h) :
      /\ ContentAt(h, i)
      /\ \E p \in (RunEnd(h, i + 2) + 2)..Len(h) :
            NoGt(h, RunEnd(h, i + 2) + 2, p - 1) /\ PropAt(h, p) }

\* html.match(re1) ?? html.match(re2), group 1, or null (NoImg).  match
\* returns the leftmost match; the greedy [^>]* of the first expression
\* ends at the last content= it can reach.
extractOgImage(html) ==
  IF Starts1(html) # {}
  THEN Capture(html, Max(After1(html, Min(Starts1(html)))))
  ELSE IF Starts2(html) # {}
  THEN Capture(html, Min(Starts2(html)))
  ELSE NoImg

(***************************************************************************)
(* Pages for extractOgImage taken alone.  A page is a sequence of meta     *)
(* tags, each described by the order of its two attributes, the letter     *)
(* case of its names, the quote around each value, its property and its    *)
(* content value x; Render writes the page as the tokens of a document.    *)
(* x is any non-empty value of at most MaxX tokens over the letter "a" and *)
(* the quote that does not delimit it.                                     *)
(***************************************************************************)
OtherQuote(q) == IF q = "dq" THEN "sq" ELSE "dq"

Values(q) ==
  UNION { [1..n -> {"a", OtherQuote(q)}] : n \in 1..MaxX }

Properties ==
  { <<"og:image">>, <<"og:image", ":width">>, <<"og:image", ":height">> }

Tags ==
  UNION { [first : {"property", "content"}, upper : BOOLEAN,
           qp : {"dq", "sq"}, qc : {qc}, prop : Properties, x : Values(qc)] :
          qc \in {"dq", "sq"} }

\* The tags of the pages that hold two tags.
PairTags ==
  { t \in Tags : /\ ~t.upper /\ t.qp = "dq" /\ t.qc = "dq"
                 /\ \A i \in 1..Len(t.x) : t.x[i] = "a" }

Pages ==
  { <<t>> : t \in Tags } \cup { <<t, u>> : t \in PairTags, u \in PairTags }

ToUpper(s) ==
  CASE s = "property=" -> "PROPERTY="
    [] s = "content=" -> "CONTENT="
    [] s = "og:image" -> "OG:IMAGE"
    [] OTHER -> s

RenderTag(t) ==
  LET c(s) == IF t.upper THEN ToUpper(s) ELSE s
      P == <<c("property="), t.qp, c("og:image")>> \o Tail(t.prop) \o <<t.qp>>
      C == <<c("content="), t.qc>> \o t.x \o <<t.qc>>
  IN <<"<meta">> \o (IF t.first = "property" THEN P \o <<"sp">> \o C
                                            ELSE C \o <<"sp">> \o P)
               \o <<"gt">>

RECURSIVE Render(_)
Render(p) == IF p = <<>> THEN <<>> ELSE RenderTag(Head(p)) \o Render(Tail(p))

NotExtracted == [done |-> FALSE, img |-> NoImg]

(***************************************************************************)
(* Errors.  nil is a thrown null/undefined; an absent field is "" (or the  *)
(* empty message), which compares like undefined in isAbortLikeError.      *)
(***************************************************************************)
NoCause == [name |-> "", code |-> "", message |-> <<>>]

Err(name, code, message, cause) ==
  [nil |-> FALSE, name |-> name, code |-> code, message |-> message,
   cause |-> cause]

\* message.toLowerCase().includes("aborted")
MentionsAborted(message) ==
  \E i \in 1..Len(message) : ToLower(message[i]) = "aborted"

isAbortLikeErrorNoCause(err) ==
  IF err.nil THEN FALSE
  ELSE \/ err.name = "AbortError"
       \/ err.code = "ECONNRESET"
       \/ err.code = "UND_ERR_ABORTED"
       \/ MentionsAborted(err.message)

isAbortLikeErrorCodesOnly(err) ==
  IF err.nil THEN FALSE
  ELSE \/ err.code = "ECONNRESET"
       \/ err.code = "UND_ERR_ABORTED"
       \/ err.cause.code = "ECONNRESET"
       \/ err.cause.code = "UND_ERR_ABORTED"

isAbortLikeError(err) ==
  IF err.nil THEN FALSE
  ELSE \/ err.name = "AbortError"
       \/ err.code = "ECONNRESET"
       \/ err.code = "UND_ERR_ABORTED"
       \/ MentionsAborted(err.message)
       \/ err.cause.code = "ECONNRESET"
       \/ err.cause.code = "UND_ERR_ABORTED"
       \/ err.cause.name = "AbortError"
       \/ MentionsAborted(err.cause.message)

\* The rejection of fetch() and of res.text() when controller.abort() was
\* called: a DOMException named AbortError.
AbortError ==
  Err("AbortError", "", <<"This operation was", "aborted">>, NoCause)

\* Failures of the outbound fetch or of the body read that the network can
\* produce by itself.
NetErrors ==
  { Err("TypeError", "", <<"fetch failed">>,
        [name |-> "Error", code |-> "ECONNREFUSED", message |-> <<"connect">>]),
    Err("TypeError", "", <<"fetch failed">>,
        [name |-> "Error", code |-> "ECONNRESET", message |-> <<"read">>]) }

\* The other shapes isAbortLikeError looks at, a plain failure, and a
\* thrown null.
ErrorShapes ==
  NetErrors \cup
  { Err("AbortError", "", <<"This operation was", "aborted">>, NoCause),
    Err("Error", "ECONNRESET", <<"read">>, NoCause),
    Err("Error", "UND_ERR_ABORTED", <<"terminated">>, NoCause),
    Err("Error", "", <<"Request", "ABORTED", "by peer">>, NoCause),
    Err("TypeError", "", <<"fetch failed">>,
        [name |-> "Error", code |-> "UND_ERR_ABORTED", message |-> <<"terminated">>]),
    Err("TypeError", "", <<"fetch failed">>,
        [name |-> "AbortError", code |-> "", message |-> <<"stopped">>]),
    Err("TypeError", "", <<"fetch failed">>,
        [name |-> "Error", code |-> "", message |-> <<"socket", "aborted">>]),
    Err("TypeError", "", <<"terminated">>,
        [name |-> "Error", code |-> "UND_ERR_SOCKET", message |-> <<"other side closed">>]),
    [Err("", "", <<>>, NoCause) EXCEPT !.nil = TRUE] }

(***************************************************************************)
(* NextResponse.redirect(img, 302).  The Location header is               *)
(* String(new URL(img)); a string that is not an absolute URL makes        *)
(* redirect throw Error('URL is malformed "<img>". ...').                  *)
(***************************************************************************)
AbsPrefix == {"https://i.postimg.cc", "HTTPS://I.POSTIMG.CC"}
PathTok == {"/x.jpg"}

UrlWellFormed(img) ==
  /\ Len(img) >= 1
  /\ img[1] \in AbsPrefix
  /\ \A i \in 2..Len(img) : img[i] \in PathTok

\* String(new URL(img)) for a well-formed img.
Normalise(img) ==
  IF Len(img) = 1 THEN <<ToLower(img[1]), "/">>
  ELSE <<ToLower(img[1])>> \o Tail(img)

RedirectError(img) ==
  Err("Error", "", <<"URL is malformed">> \o img \o <<"Please use only absolute URLs">>,
      [name |-> "TypeError", code |-> "ERR_INVALID_URL",
       message |-> <<"Invalid URL">>])

(***************************************************************************)
(* Responses.  status 0 is "no response yet"; status -1 is an exception    *)
(* that left the handler.                                                  *)
(***************************************************************************)
Resp(status, body, location) ==
  [status |-> status, body |-> body, location |-> location]

NoResp == Resp(0, "", <<>>)
Escaped == Resp(-1, "exception", <<>>)

\* NextResponse.json({ error }, { status })
Json(status, error) == Resp(status, error, <<>>)

\* imageFallbackResponse(label)
imageFallbackResponse(label) == Resp(200, label, <<>>)

\* NextResponse.redirect(img, 302) for a well-formed img.
Redirect(img) == Resp(302, "", Normalise(img))

MissingResponse(v) ==
  IF v = "strict" THEN Json(400, "Missing url")
  ELSE imageFallbackResponse("Missing image url")

InvalidResponse(v) ==
  IF v = "strict" THEN Json(400, "Invalid url")
  ELSE imageFallbackResponse("Invalid image url")

HostResponse(v) ==
  IF v = "strict" THEN Json(400, "Only postimg.cc is allowed")
  ELSE imageFallbackResponse("Only postimg.cc is allowed")

CancelledResponse(v) ==
  IF v = "strict" THEN Resp(204, "", <<>>)
  ELSE imageFallbackResponse("Image request cancelled")

FailureResponse(v) ==
  IF v = "strict" THEN Json(500, "Unexpected error fetching postimg")
  ELSE imageFallbackResponse("Preview unavailable")

BadStatusResponse(v) ==
  IF v = "strict" THEN Json(502, "Failed to fetch postimg page")
  ELSE imageFallbackResponse("Preview unavailable")

NoImageResponse(v) ==
  IF v = "strict" THEN Json(404, "No og:image found")
  ELSE imageFallbackResponse("Preview unavailable")

RejectedResponse(v, why) ==
  CASE why = "missing" -> MissingResponse(v)
    [] why = "invalid" -> InvalidResponse(v)
    [] why = "host" -> HostResponse(v)

(***************************************************************************)
(* The cache of the image handler: globalThis.__postimgCache.              *)
(***************************************************************************)
NoEntry == [img |-> NoImg, ts |-> -1]

\* cached && Date.now() - cached.ts < CACHE_TTL_MS
CacheFresh(entry, t) == entry # NoEntry /\ t - entry.ts < CACHE_TTL_MS

(***************************************************************************)
(* Upstream documents the model lets postimg.cc answer with.               *)
(***************************************************************************)
Bodies ==
  { <<>>,
    <<"<meta", "property=", "dq", "og:image", ":width", "dq", "sp",
      "content=", "dq", "1200", "dq", "gt">>,
    <<"<meta", "property=", "dq", "og:image", "dq", "sp",
      "content=", "dq", "https://i.postimg.cc", "/x.jpg", "dq", "gt">>,
    <<"<meta", "CONTENT=", "sq", "HTTPS://I.POSTIMG.CC", "/x.jpg", "sq", "sp",
      "PROPERTY=", "sq", "OG:IMAGE", "sq", "gt">>,
    <<"<meta", "property=", "dq", "og:image", "dq", "sp",
      "content=", "dq", "/x.jpg", "dq", "gt">> }

\* The clock is observed every 12 hours.
TickMs == CACHE_TTL_MS \div 2

(***************************************************************************)
(* LoadingScreen.  txt is the number of characters of full that are        *)
(* shown (full.slice(0, txt)); FullLen stands for full.length.             *)
(*   txt, phase, visible  the three useState values, as committed          *)
(*   doneRef      doneRef.current                                          *)
(*   timeoutRef   the timer timeoutRef.current names                       *)
(*   timers       the timers that are set and neither fired nor cleared    *)
(*   stale        a dependency of the effects changed in a render whose    *)
(*                effects have not run yet                                 *)
(*   renders      renders of Home that passed a new onDone function        *)
(*   onDone       calls of onDone                                          *)
(*   mounted      Home renders the component (loadingDone is false)        *)
(* A timer is the function it calls; tick closes over the txt and phase    *)
(* of the render whose effect created it.                                  *)
(***************************************************************************)
NoTimer == [fn |-> "none", txt |-> 0, phase |-> "typing"]
OnDoneTimer == [fn |-> "onDone", txt |-> 0, phase |-> "typing"]
SetPhaseTimer == [fn |-> "setPhase", txt |-> 0, phase |-> "pause"]
TickTimer(txt, phase) == [fn |-> "tick", txt |-> txt, phase |-> phase]

\* if (timeoutRef.current) window.clearTimeout(timeoutRef.current);
\* timeoutRef.current = window.setTimeout(fn, ms)
schedule(s, t) ==
  [s EXCEPT !.timers = (@ \ {s.timeoutRef}) \cup {t}, !.timeoutRef = t]

\* The first effect run, at mount: schedule(tick, 40).
MountedScreen ==
  [txt |-> 0, phase |-> "typing", visible |-> TRUE, doneRef |-> FALSE,
   timeoutRef |-> TickTimer(0, "typing"), timers |-> {TickTimer(0, "typing")},
   stale |-> FALSE, renders |-> 0, onDone |-> 0, mounted |-> TRUE]

\* finish (lines 217-224)
finish(s) ==
  IF s.doneRef THEN s
  ELSE schedule([s EXCEPT !.doneRef = TRUE, !.visible = FALSE], OnDoneTimer)

tickUnguarded(s, c) ==
  IF c.phase = "typing"
  THEN LET next == Min({c.txt + 1, FullLen})
       IN schedule([s EXCEPT !.txt = next],
                   IF next = FullLen THEN SetPhaseTimer ELSE c)
  ELSE IF c.phase = "pause"
  THEN schedule([s EXCEPT !.phase = "deleting"], c)
  ELSE LET next == Max({0, c.txt - 1})
       IN IF next = 0 THEN finish([s EXCEPT !.txt = next])
          ELSE schedule([s EXCEPT !.txt = next], c)

\* tick (lines 244-272) with the txt and phase of its closure c
tick(s, c) ==
  IF s.doneRef THEN s
  ELSE IF c.phase = "typing"
  THEN LET next == Min({c.txt + 1, FullLen})
       IN schedule([s EXCEPT !.txt = next],
                   IF next = FullLen THEN SetPhaseTimer ELSE c)
  ELSE IF c.phase = "pause"
  THEN schedule([s EXCEPT !.phase = "deleting"], c)
  ELSE LET next == Max({0, c.txt - 1})
       IN IF next = 0 THEN finish([s EXCEPT !.txt = next])
          ELSE schedule([s EXCEPT !.txt = next], c)

\* React renders after the state setters of s gave t; an unmounted
\* component keeps its state, and a changed txt or phase leaves the
\* second effect to be run again.
Commit(s, t) ==
  IF ~s.mounted
  THEN [t EXCEPT !.txt = s.txt, !.phase = s.phase, !.visible = s.visible]
  ELSE [t EXCEPT !.stale = s.stale \/ t.txt # s.txt \/ t.phase # s.phase]

(***************************************************************************)
(* One request.                                                            *)
(*   pc          where the asynchronous work of the handler stands         *)
(*   resp        the response the caller got                               *)
(*   sigAborted  req.signal.aborted                                        *)
(*   ctrlAborted controller.signal.aborted                                 *)
(*   listener    an abort listener is registered on req.signal             *)
(*   listened    req.signal.addEventListener was called                    *)
(*   timer       the setTimeout(..., 8000) of the strict handler           *)
(*   attempt     the loop variable of the image handler                    *)
(*   fetches     outbound requests put on the network                      *)
(*   html        the document res.text() delivered                         *)
(*   img         the og:image value the handler extracted                  *)
(*   err         the error fetch() or res.text() threw into a catch block  *)
(*   hit         the cache lookup found a fresh entry                      *)
(*   replaced    what the key held when cache.set() was called             *)
(*   at, ev      set when the handler returns: where it stood and the      *)
(*               event it handled last                                     *)
(* After validation the handler only uses parsed.toString(), the key.      *)
(* When the handler has returned, its activation is gone; last keeps the   *)
(* record of the activation that returned most recently.                   *)
(***************************************************************************)
NoUrl == [kind |-> "missing", scheme |-> "", host |-> "", path |-> ""]
NoKey == <<"", "", "">>
NoErr == Err("", "", <<>>, NoCause)

IdleRequest ==
  [pc |-> "idle", resp |-> NoResp,
   url |-> NoUrl, key |-> NoKey,
   sigAborted |-> FALSE, ctrlAborted |-> FALSE, listener |-> FALSE,
   listened |-> FALSE,
   timer |-> "none", attempt |-> 0, fetches |-> 0, html |-> <<>>,
   img |-> NoImg, err |-> NoErr, hit |-> FALSE, replaced |-> NoEntry,
   at |-> "", ev |-> ""]

GoneRequest == [IdleRequest EXCEPT !.pc = "gone"]

Init ==
  /\ variant \in {"strict", "image"}
  /\ now = 0
  /\ ticks = 0
  /\ cache = [k \in Keys |-> NoEntry]
  /\ req = [r \in Requests |-> IdleRequest]
  /\ last = IdleRequest
  /\ page = <<>>
  /\ extracted = NotExtracted
  /\ screen = MountedScreen

\* Request r handles event ev and goes on as q; a q that has returned
\* becomes last.
Step(r, ev, q) ==
  IF q.pc = "done"
  THEN /\ req' = [req EXCEPT ![r] = GoneRequest]
       /\ last' = [q EXCEPT !.at = req[r].pc, !.ev = ev]
  ELSE req' = [req EXCEPT ![r] = q] /\ UNCHANGED last

ClearTimeoutUnlessAborted(q) ==
  IF q.sigAborted THEN q
  ELSE [q EXCEPT !.timer = IF @ = "armed" THEN "cleared" ELSE @]

\* finally { clearTimeout(timeoutId) }
ClearTimeout(q) ==
  [q EXCEPT !.timer = IF @ = "armed" THEN "cleared" ELSE @]

\* The work of the strict handler settles with response r; the caller gets
\* it unless the abort listener already won Promise.race.
StrictSettle(q, r) ==
  [ClearTimeout(q) EXCEPT !.pc = "done",
                          !.resp = IF q.resp = NoResp THEN r ELSE q.resp]

\* The image handler returns r; finally removes the abort listener.
ImageReturn(q, r) ==
  [q EXCEPT !.pc = "done", !.resp = r, !.listener = FALSE]

\* catch (err) of the work of the strict handler (lines 99-104).
StrictCatch(err) ==
  IF isAbortLikeError(err) THEN CancelledResponse("strict")
  ELSE FailureResponse("strict")

\* catch (err) around res.text() in the strict handler (lines 88-91).
StrictReadCatch(err) ==
  IF isAbortLikeError(err) THEN CancelledResponse("strict")
  ELSE StrictCatch(err)

\* Outer catch of the image handler (lines 117-119).
ImageCatch(err) ==
  IF isAbortLikeError(err) THEN CancelledResponse("image")
  ELSE FailureResponse("image")

\* catch (err) inside the retry loop of the image handler (lines 101-107).
ImageLoopCatch(q, err) ==
  LET q1 == [q EXCEPT !.err = err]
  IN IF isAbortLikeError(err)
     THEN ImageReturn(q1, CancelledResponse("image"))
     ELSE IF q.attempt = 1
     THEN ImageReturn(q1, ImageCatch(err))
     ELSE [q1 EXCEPT !.pc = "backoff"]

\* fetch(parsed.toString(), { signal: controller.signal }) is called and
\* goes to the network.
StartFetch(q) == [q EXCEPT !.pc = "fetch", !.fetches = @ + 1]

\* NextResponse.redirect(img, 302) outside any try block (line 78 of the
\* image handler): the response, or the exception leaves the handler.
RedirectUncaught(img) ==
  IF UrlWellFormed(img) THEN Redirect(img) ELSE Escaped

\* NextResponse.redirect(img, 302) inside the try block of the handler of
\* variant v: the response, or what the catch block makes of the exception.
RedirectCaught(v, img) ==
  IF UrlWellFormed(img) THEN Redirect(img)
  ELSE IF v = "strict" THEN StrictCatch(RedirectError(img))
  ELSE ImageCatch(RedirectError(img))

(***************************************************************************)
(* A request arrives: the handler runs up to its first await.  ab says     *)
(* that req.signal is already aborted.                                     *)
(***************************************************************************)
ArriveStrict(q, ab) ==
  IF ab
  THEN \* abortTo204(): controller.abort(), 204
       [q EXCEPT !.pc = "done", !.sigAborted = TRUE, !.ctrlAborted = TRUE,
                 !.resp = CancelledResponse("strict")]
  ELSE StartFetch([q EXCEPT !.listener = TRUE, !.listened = TRUE,
                            !.timer = "armed"])

ArriveImage(q, ab, entry, t) ==
  IF CacheFresh(entry, t)
  THEN [q EXCEPT !.pc = "done", !.sigAborted = ab, !.hit = TRUE,
                 !.resp = RedirectUncaught(entry.img)]
  ELSE IF ab
  THEN \* listener added, signal found aborted, listener removed
       ImageReturn([q EXCEPT !.sigAborted = TRUE, !.listened = TRUE],
                   CancelledResponse("image"))
  ELSE StartFetch([q EXCEPT !.listener = TRUE, !.listened = TRUE])

Arrive(r, u, ab) ==
  /\ req[r].pc = "idle"
  /\ \A p \in Requests : p < r => req[p].pc # "idle"
  /\ Step(r, "arrive",
          IF Validate(u) # "ok"
          THEN [req[r] EXCEPT !.url = u, !.pc = "done",
                              !.resp = RejectedResponse(variant, Validate(u))]
          ELSE IF variant = "strict"
          THEN ArriveStrict([req[r] EXCEPT !.key = Href(u)], ab)
          ELSE ArriveImage([req[r] EXCEPT !.key = Href(u)], ab,
                           cache[Href(u)], now))
  /\ UNCHANGED <<variant, now, ticks, cache, page, extracted, screen>>

(***************************************************************************)
(* The caller aborts the inbound request while the handler is suspended.   *)
(*   strict: the listener runs abortTo204 and resolves abortResponse,      *)
(*           which wins Promise.race; controller.abort() rejects the       *)
(*           pending fetch/text with AbortError and the work settles.      *)
(*   image:  onAbort calls controller.abort(); a pending fetch/text        *)
(*           rejects with AbortError; the backoff delay is not             *)
(*           interrupted.                                                  *)
(***************************************************************************)
CallerAbortStrict(q) ==
  LET q1 == [q EXCEPT !.sigAborted = TRUE, !.ctrlAborted = TRUE,
                      !.listener = FALSE, !.err = AbortError,
                      !.resp = CancelledResponse("strict")]
  IN StrictSettle(q1, IF q.pc = "read" THEN StrictReadCatch(AbortError)
                      ELSE StrictCatch(AbortError))

CallerAbortImage(q) ==
  LET q1 == [q EXCEPT !.sigAborted = TRUE, !.ctrlAborted = TRUE,
                      !.listener = FALSE]
  IN IF q.pc = "backoff" THEN q1 ELSE ImageLoopCatch(q1, AbortError)

CallerAbort(r) ==
  /\ req[r].pc \in {"fetch", "read", "backoff"}
  /\ ~req[r].sigAborted
  /\ Step(r, "abort",
          IF variant = "strict" THEN CallerAbortStrict(req[r])
          ELSE CallerAbortImage(req[r]))
  /\ UNCHANGED <<variant, now, ticks, cache, page, extracted, screen>>

\* The 8000 ms timer of the strict handler fires: controller.abort().
TimeoutFire(r) ==
  /\ req[r].timer = "armed"
  /\ Step(r, "timeout",
          StrictSettle([req[r] EXCEPT !.timer = "fired", !.ctrlAborted = TRUE,
                                      !.err = AbortError],
                       IF req[r].pc = "read" THEN StrictReadCatch(AbortError)
                       ELSE StrictCatch(AbortError)))
  /\ UNCHANGED <<variant, now, ticks, cache, page, extracted, screen>>

(***************************************************************************)
(* The upstream answers the outbound fetch with a status line.             *)
(***************************************************************************)
FetchResolveRetry(r, ok) ==
  /\ req[r].pc = "fetch"
  /\ Step(r, "status",
          IF ok THEN [req[r] EXCEPT !.pc = "read"]
          ELSE IF req[r].fetches < 2 THEN StartFetch(req[r])
          ELSE IF variant = "strict"
          THEN StrictSettle(req[r], BadStatusResponse("strict"))
          ELSE ImageReturn(req[r], BadStatusResponse("image")))
  /\ UNCHANGED <<variant, now, ticks, cache, page, extracted, screen>>

\* if (!res.ok) ... : 502 (strict) or break with html = null (image).
FetchResolve(r, ok) ==
  /\ req[r].pc = "fetch"
  /\ Step(r, "status",
          IF ok THEN [req[r] EXCEPT !.pc = "read"]
          ELSE IF variant = "strict"
          THEN StrictSettle(req[r], BadStatusResponse("strict"))
          ELSE ImageReturn(req[r], BadStatusResponse("image")))
  /\ UNCHANGED <<variant, now, ticks, cache, page, extracted, screen>>

\* The outbound fetch fails by itself.
FetchReject(r, err) ==
  /\ req[r].pc = "fetch"
  /\ Step(r, "fetchErr",
          IF variant = "strict"
          THEN StrictSettle([req[r] EXCEPT !.err = err], StrictCatch(err))
          ELSE ImageLoopCatch(req[r], err))
  /\ UNCHANGED <<variant, now, ticks, cache, page, extracted, screen>>

\* res.text() fails by itself.
ReadReject(r, err) ==
  /\ req[r].pc = "read"
  /\ Step(r, "readErr",
          IF variant = "strict"
          THEN StrictSettle([req[r] EXCEPT !.err = err], StrictReadCatch(err))
          ELSE ImageLoopCatch(req[r], err))
  /\ UNCHANGED <<variant, now, ticks, cache, page, extracted, screen>>

(***************************************************************************)
(* res.text() delivers the document: extraction, cache write (image) and   *)
(* the redirect happen in the same job.                                    *)
(***************************************************************************)
ReadResolveStrictNoHtml(q, img) ==
  IF q.html = <<>>
  THEN StrictSettle(q, BadStatusResponse("strict"))
  ELSE IF img = NoImg
  THEN StrictSettle(q, NoImageResponse("strict"))
  ELSE StrictSettle([q EXCEPT !.img = img], RedirectCaught("strict", img))

\* if (!img) 404; redirect
ReadResolveStrict(q, img) ==
  IF img = NoImg
  THEN StrictSettle(q, NoImageResponse("strict"))
  ELSE StrictSettle([q EXCEPT !.img = img], RedirectCaught("strict", img))

\* if (!html) ...; if (!img) ...; cache.set(...); redirect
ReadResolveImage(q, html, img) ==
  IF html = <<>> \/ img = NoImg
  THEN ImageReturn(q, NoImageResponse("image"))
  ELSE ImageReturn([q EXCEPT !.img = img, !.replaced = cache[q.key]],
                   RedirectCaught("image", img))

CacheSetKeepFirst(c, key, img, t) ==
  IF c[key] # NoEntry THEN c ELSE [c EXCEPT ![key] = [img |-> img, ts |-> t]]

\* cache.set(parsed.toString(), { img, ts: Date.now() })
CacheSet(c, key, img, t) == [c EXCEPT ![key] = [img |-> img, ts |-> t]]

ReadResolveCacheAlways(r, html) ==
  /\ req[r].pc = "read"
  /\ LET img == extractOgImage(html)
     IN /\ Step(r, "body",
                IF variant = "strict"
                THEN ReadResolveStrict([req[r] EXCEPT !.html = html], img)
                ELSE ReadResolveImage([req[r] EXCEPT !.html = html], html, img))
        /\ cache' = IF variant = "image"
                    THEN CacheSet(cache, req[r].key, img, now)
                    ELSE cache
  /\ UNCHANGED <<variant, now, ticks, page, extracted, screen>>

ReadResolve(r, html) ==
  /\ req[r].pc = "read"
  /\ LET img == extractOgImage(html)
     IN /\ Step(r, "body",
                IF variant = "strict"
                THEN ReadResolveStrict([req[r] EXCEPT !.html = html], img)
                ELSE ReadResolveImage([req[r] EXCEPT !.html = html], html, img))
        /\ cache' = IF variant = "image" /\ html # <<>> /\ img # NoImg
                    THEN CacheSet(cache, req[r].key, img, now)
                    ELSE cache
  /\ UNCHANGED <<variant, now, ticks, page, extracted, screen>>

\* The 150 ms delay of the image handler ends: attempt++ and the loop calls
\* fetch again; with an aborted signal fetch rejects at once with
\* AbortError and nothing goes to the network.
BackoffDone(r) ==
  /\ req[r].pc = "backoff"
  /\ Step(r, "wake",
          IF req[r].ctrlAborted
          THEN ImageLoopCatch([req[r] EXCEPT !.attempt = 1], AbortError)
          ELSE StartFetch([req[r] EXCEPT !.attempt = 1]))
  /\ UNCHANGED <<variant, now, ticks, cache, page, extracted, screen>>

\* Date.now() advances; only the image handler reads the clock.
Tick ==
  /\ variant = "image"
  /\ ticks < MaxTicks
  /\ now' = now + TickMs
  /\ ticks' = ticks + 1
  /\ UNCHANGED <<variant, cache, req, last, page, extracted, screen>>

\* req.signal.aborted is read on the accepted path only.
Arrivals ==
  { <<u, ab>> \in UrlInputs \X BOOLEAN : ab => Validate(u) = "ok" }

Next ==
  \/ \E r \in Requests, a \in Arrivals : Arrive(r, a[1], a[2])
  \/ \E r \in Requests : CallerAbort(r)
  \/ \E r \in Requests : TimeoutFire(r)
  \/ \E r \in Requests, ok \in BOOLEAN : FetchResolve(r, ok)
  \/ \E r \in Requests, err \in NetErrors : FetchReject(r, err)
  \/ \E r \in Requests, err \in NetErrors : ReadReject(r, err)
  \/ \E r \in Requests, html \in Bodies : ReadResolve(r, html)
  \/ \E r \in Requests : BackoffDone(r)
  \/ Tick

Spec == Init /\ [][Next]_vars

(***************************************************************************)
(* Timers fire: a setTimeout callback that is due runs.  Nothing obliges   *)
(* the upstream to answer, the body to end or the caller to abort.         *)
(***************************************************************************)
Fairness ==
  \A r \in Requests : WF_vars(TimeoutFire(r)) /\ WF_vars(BackoffDone(r))

SpecLive == Spec /\ Fairness

(***************************************************************************)
(* The image handler serving requests for two pages.                       *)
(***************************************************************************)
InitKeys == Init /\ variant = "image"

\* The two pages of these runs name different images.
KeyBodies == { b \in Bodies : UrlWellFormed(extractOgImage(b)) }

\* The failures of these runs are the transient ones.
KeyErrors == { e \in NetErrors : ~isAbortLikeError(e) }

NextKeys ==
  \/ \E r \in Requests, u \in KeyInputs : Arrive(r, u, FALSE)
  \/ \E r \in Requests : CallerAbort(r)
  \/ \E r \in Requests, ok \in BOOLEAN : FetchResolve(r, ok)
  \/ \E r \in Requests, err \in KeyErrors : FetchReject(r, err)
  \/ \E r \in Requests, err \in KeyErrors : ReadReject(r, err)
  \/ \E r \in Requests, html \in KeyBodies : ReadResolve(r, html)
  \/ \E r \in Requests : BackoffDone(r)
  \/ Tick

SpecKeys == InitKeys /\ [][NextKeys]_vars

(***************************************************************************)
(* Both handlers serving requests for one page whose fetch and body read   *)
(* can fail with every shape of error.                                     *)
(***************************************************************************)
NextErrors ==
  \/ \E r \in Requests, u \in KeyInputs : u.path = "" /\ Arrive(r, u, FALSE)
  \/ \E r \in Requests : CallerAbort(r)
  \/ \E r \in Requests : TimeoutFire(r)
  \/ \E r \in Requests, ok \in BOOLEAN : FetchResolve(r, ok)
  \/ \E r \in Requests, err \in ErrorShapes : FetchReject(r, err)
  \/ \E r \in Requests, err \in ErrorShapes : ReadReject(r, err)
  \/ \E r \in Requests, html \in KeyBodies : ReadResolve(r, html)
  \/ \E r \in Requests : BackoffDone(r)

SpecErrors == Init /\ [][NextErrors]_vars

(***************************************************************************)
(* LoadingScreen under Home.                                               *)
(***************************************************************************)
handlers == <<variant, now, ticks, cache, req, last, page, extracted>>

\* onClick of the overlay, onClick of the Skip button, keydown Escape.
\* The overlay takes no pointer events once visible is false; the button
\* in it can still be pressed from the keyboard.
Press(how) ==
  /\ screen.mounted
  /\ how = "click" => screen.visible
  /\ screen' = Commit(screen, finish(screen))
  /\ UNCHANGED handlers

\* A timer set for tick fires.
TickFires(t) ==
  /\ t \in screen.timers
  /\ t.fn = "tick"
  /\ screen' = Commit(screen, tick([screen EXCEPT !.timers = @ \ {t}], t))
  /\ UNCHANGED handlers

\* The timer set for () => setPhase("pause") fires.
SetPhaseFires(t) ==
  /\ t \in screen.timers
  /\ t.fn = "setPhase"
  /\ screen' = Commit(screen, [screen EXCEPT !.timers = @ \ {t},
                                             !.phase = "pause"])
  /\ UNCHANGED handlers

\* The timer set for onDone fires: setLoadingDone(true), Home renders
\* without the component, whose effects are cleaned up.
OnDoneFires(t) ==
  /\ t \in screen.timers
  /\ t.fn = "onDone"
  /\ screen' = [screen EXCEPT !.timers = (@ \ {t}) \ {screen.timeoutRef},
                              !.onDone = @ + 1,
                              !.mounted = FALSE,
                              !.stale = FALSE]
  /\ UNCHANGED handlers

\* The effects whose dependencies changed run: the clean-up of the second
\* effect clears timeoutRef.current, its body calls schedule(tick, 40).
RunEffects ==
  /\ screen.mounted
  /\ screen.stale
  /\ screen' = schedule([screen EXCEPT !.stale = FALSE],
                        TickTimer(screen.txt, screen.phase))
  /\ UNCHANGED handlers

\* Home renders again (the 1800 ms role interval) and passes a new onDone:
\* finish changes, both effects are to be run again.
ParentRender ==
  /\ screen.mounted
  /\ screen.renders < MaxRenders
  /\ screen' = [screen EXCEPT !.renders = @ + 1, !.stale = TRUE]
  /\ UNCHANGED handlers

InitLoading == Init /\ variant = "image"

NextLoading ==
  \/ \E how \in {"click", "skip", "escape"} : Press(how)
  \/ \E t \in screen.timers : TickFires(t)
  \/ \E t \in screen.timers : SetPhaseFires(t)
  \/ \E t \in screen.timers : OnDoneFires(t)
  \/ RunEffects
  \/ ParentRender

SpecLoading == InitLoading /\ [][NextLoading]_vars

\* Timers that are set fire, and React runs the effects of a render.
FairLoading ==
  /\ WF_vars(\E t \in screen.timers : TickFires(t))
  /\ WF_vars(\E t \in screen.timers : SetPhaseFires(t))
  /\ WF_vars(\E t \in screen.timers : OnDoneFires(t))
  /\ WF_vars(RunEffects)

SpecLoadingLive == SpecLoading /\ FairLoading

(***************************************************************************)
(* extractOgImage applied to one page, apart from the handlers.            *)
(***************************************************************************)
InitExtract ==
  /\ variant = "strict"
  /\ now = 0
  /\ ticks = 0
  /\ cache = [k \in Keys |-> NoEntry]
  /\ req = [r \in Requests |-> IdleRequest]
  /\ last = IdleRequest
  /\ page \in Pages
  /\ extracted = NotExtracted
  /\ screen = MountedScreen

Extract ==
  /\ ~extracted.done
  /\ extracted' = [done |-> TRUE, img |-> extractOgImage(Render(page))]
  /\ UNCHANGED <<variant, now, ticks, cache, req, last, page, screen>>

NextExtract == Extract

SpecExtract == InitExtract /\ [][NextExtract]_vars

TypeOK ==
  /\ variant \in {"strict", "image"}
  /\ now \in Nat
  /\ ticks \in 0..MaxTicks
  /\ last.pc \in {"idle", "done"}
  /\ page \in Pages \cup {<<>>}
  /\ extracted.done \in BOOLEAN
  /\ DOMAIN cache = Keys
  /\ \A r \in Requests :
       /\ req[r].pc \in {"idle", "fetch", "read", "backoff", "gone"}
       /\ req[r].attempt \in 0..1
       /\ req[r].timer \in {"none", "armed"}
  /\ screen.txt \in 0..FullLen
  /\ screen.phase \in {"typing", "pause", "deleting"}
  /\ screen.renders \in 0..MaxRenders
  /\ screen.onDone \in Nat

(***************************************************************************)
(* Vocabulary of the properties.                                           *)
(***************************************************************************)
\* The activations that exist: the suspended ones and the last returned.
Suspended == { r \in Requests : req[r].pc \in {"fetch", "read", "backoff"} }

\* q passed the three validation steps.
Accepted(q) == q.key # NoKey

\* q returned from the validation steps.
Rejected(q) == q.pc = "done" /\ q.key = NoKey

\* r returns in this step.
Returns(r) == req[r].pc # "gone" /\ req'[r].pc = "gone"

(***************************************************************************)
(* C1  A request whose parsed hostname is not exactly postimg.cc gets the  *)
(* host-not-allowed response of the variant, makes no outbound fetch,      *)
(* does not look into the cache and leaves the cache as it is; no          *)
(* activation ever goes past validation with another hostname.             *)
(***************************************************************************)
C1_StateOk ==
  /\ \A r \in Requests : Accepted(req[r]) => req[r].key[2] = AllowedHost
  /\ Accepted(last) => last.key[2] = AllowedHost
  /\ ( /\ Rejected(last)
       /\ ~IsMissing(last.url)
       /\ ParseOk(last.url)
       /\ Hostname(last.url) # AllowedHost )
     => /\ last.resp = HostResponse(variant)
        /\ last.fetches = 0
        /\ ~last.hit

C1_HostNotAllowed ==
  [][ /\ C1_StateOk'
      /\ \A r \in Requests :
           (Returns(r) /\ Rejected(last')) => cache' = cache ]_vars

C1_Witness ==
  /\ Rejected(last)
  /\ last.url.host \in {"i.postimg.cc", "www.postimg.cc"}
  /\ last.resp = HostResponse(variant)
  /\ last.fetches = 0

(***************************************************************************)
(* C2  A missing or empty url gets the missing-input response, a url that  *)
(* does not parse gets the invalid-input response (whatever host it        *)
(* names), neither makes an outbound fetch, and only a url that parses to  *)
(* a scheme and a host goes past validation.                               *)
(***************************************************************************)
C2_InvalidInput ==
  /\ \A r \in Requests :
       Accepted(req[r]) => req[r].key[1] # "" /\ req[r].key[2] # ""
  /\ Accepted(last) => last.key[1] # "" /\ last.key[2] # ""
  /\ (Rejected(last) /\ IsMissing(last.url))
     => last.resp = MissingResponse(variant) /\ last.fetches = 0
  /\ (Rejected(last) /\ ~IsMissing(last.url) /\ ~ParseOk(last.url))
     => last.resp = InvalidResponse(variant) /\ last.fetches = 0

C2_Witness ==
  /\ Rejected(last)
  /\ last.url.kind = "text"
  /\ last.url.scheme = "https:"
  /\ last.url.host = ""
  /\ last.resp = InvalidResponse(variant)

(***************************************************************************)
(* C3  A request that is not cancelled and whose document yields the       *)
(* og:image value X is answered 302 to X; the image variant then holds     *)
(* {img: X, ts: now} under the key, the strict variant stores nothing.     *)
(***************************************************************************)
C3_RedirectToExtracted ==
  [][ \A r \in Requests :
        (Returns(r) /\ req[r].pc = "read" /\ last'.ev = "body"
           /\ last'.img # NoImg)
        => /\ last'.resp = Redirect(last'.img)
           /\ variant = "image"
              => cache'[last'.key] = [img |-> last'.img, ts |-> now]
           /\ variant = "strict" => cache' = cache ]_vars

(***************************************************************************)
(* C4  No exception leaves a handler: every response is one of the         *)
(* enumerated ones.                                                        *)
(***************************************************************************)
C4_NoEscape ==
  last.pc = "done"
  => /\ last.resp # Escaped
     /\ variant = "image" => last.resp.status \in {200, 302}
     /\ variant = "strict"
        => last.resp.status \in {400, 502, 404, 204, 500, 302}

(***************************************************************************)
(* C5  A request that reached the pipeline (its cache lookup did not hit)  *)
(* and was aborted by its caller is answered with the cancellation-shaped  *)
(* response, never with a failure response, and puts no further fetch on   *)
(* the network after the abort.                                            *)
(***************************************************************************)
C5_StateOk ==
  (last.pc = "done" /\ last.sigAborted /\ ~last.hit)
  => last.resp = CancelledResponse(variant)

C5_CancelledBeforeFetchCompletes ==
  [][ /\ C5_StateOk'
      /\ \A r \in Requests :
           (req[r].sigAborted /\ req'[r] # req[r])
           => /\ Returns(r)
              /\ last'.fetches = req[r].fetches
              /\ last'.resp = CancelledResponse(variant) ]_vars

C5_Witness ==
  /\ variant = "image"
  /\ last.pc = "done"
  /\ last.sigAborted
  /\ last.at = "backoff"
  /\ last.fetches = 1
  /\ last.resp = CancelledResponse("image")

(***************************************************************************)
(* C6  After a transient failure of the first outbound fetch the request   *)
(* is retried: the generic-failure response to a fetch failure comes only  *)
(* after two outbound fetches, and a retry that succeeds ends in the       *)
(* redirect.                                                               *)
(***************************************************************************)
C6_RetryOnce ==
  /\ (last.pc = "done" /\ last.ev = "fetchErr"
        /\ last.resp = FailureResponse(variant))
     => last.fetches = 2
  /\ (last.pc = "done" /\ last.ev = "body" /\ last.fetches = 2
        /\ UrlWellFormed(last.img))
     => last.resp = Redirect(last.img)

(***************************************************************************)
(* C7  Image variant: a request that finds an entry younger than 24 h      *)
(* under its key is answered 302 to the cached image without an outbound   *)
(* fetch; an entry of 24 h or more is not served.                          *)
(***************************************************************************)
C7_CacheWindow ==
  [][ \A r \in Requests :
        ( /\ variant = "image"
          /\ req[r].pc = "idle"
          /\ req'[r].pc # "idle"
          /\ Accepted(IF Returns(r) THEN last' ELSE req'[r]) )
        => LET q == IF Returns(r) THEN last' ELSE req'[r]
               e == cache[q.key]
           IN /\ (e # NoEntry /\ now - e.ts < CACHE_TTL_MS)
                 => /\ Returns(r)
                    /\ q.resp = Redirect(e.img)
                    /\ q.fetches = 0
              /\ (e # NoEntry /\ now - e.ts >= CACHE_TTL_MS)
                 => /\ ~q.hit
                    /\ q.fetches = 1 \/ q.sigAborted ]_vars

(***************************************************************************)
(* C8  Every suspended request has the 8 s timer armed, and a timer that   *)
(* fires ends the request with the cancellation-shaped response.           *)
(***************************************************************************)
C8_TimeoutInScope ==
  /\ \A r \in Suspended : req[r].timer = "armed"
  /\ (last.pc = "done" /\ last.ev = "timeout")
     => last.resp = CancelledResponse(variant)

(***************************************************************************)
(* C9  The response to a caller's abort comes with the abort: no request   *)
(* stays suspended after its caller aborted, and a request aborted on      *)
(* arrival or later is answered with the cancellation-shaped response,     *)
(* whatever the cache holds.                                               *)
(***************************************************************************)
C9_AbortAnswersAtOnce ==
  /\ \A r \in Suspended : ~req[r].sigAborted
  /\ (last.pc = "done" /\ last.sigAborted)
     => last.resp = CancelledResponse(variant)

(***************************************************************************)
(* C10 as stated: a non-success status gets 502 / "Preview unavailable",   *)
(* exactly one outbound fetch was made.                                    *)
(***************************************************************************)
C10_Original ==
  (last.pc = "done" /\ last.ev = "status")
  => /\ last.resp = BadStatusResponse(variant)
     /\ last.fetches = 1

(***************************************************************************)
(* C10 amended: a non-success status gets 502 / "Preview unavailable";     *)
(* the fetch that got it is not retried (the request ends with that        *)
(* answer, having made one outbound fetch per attempt: one in the strict   *)
(* variant, one or two in the image variant) and the cache is not          *)
(* written.                                                                *)
(***************************************************************************)
C10_StateOk ==
  /\ \A r \in Suspended :
       /\ req[r].fetches = req[r].attempt + 1
       /\ variant = "strict" => req[r].fetches = 1
  /\ (last.pc = "done" /\ last.ev = "status")
     => /\ last.resp = BadStatusResponse(variant)
        /\ last.fetches = last.attempt + 1
        /\ variant = "strict" => last.fetches = 1

C10_BadStatusNotRetried ==
  [][ /\ C10_StateOk'
      /\ \A r \in Requests :
           (Returns(r) /\ last'.ev = "status")
           => /\ last'.fetches = req[r].fetches
              /\ cache' = cache ]_vars

C10_Witness ==
  /\ variant = "image"
  /\ last.pc = "done"
  /\ last.ev = "status"
  /\ last.fetches = 2
  /\ last.resp = BadStatusResponse("image")

(***************************************************************************)
(* C11  A body that was read and holds no og:image pattern (the empty      *)
(* body included) is answered 404 'No og:image found' by the strict        *)
(* variant and 'Preview unavailable' by the image variant; the request     *)
(* ends there without another outbound fetch and the cache is as before.   *)
(***************************************************************************)
NoOgImagePattern(h) == Starts1(h) = {} /\ Starts2(h) = {}

C11_NoImageFound ==
  [][ \A r \in Requests :
        /\ ~(req[r].pc = "read" /\ req'[r].pc = "fetch")
        /\ ( /\ Returns(r)
             /\ req[r].pc = "read"
             /\ last'.ev = "body"
             /\ NoOgImagePattern(last'.html) )
           => /\ last'.resp = IF variant = "strict"
                              THEN Json(404, "No og:image found")
                              ELSE imageFallbackResponse("Preview unavailable")
              /\ last'.fetches = req[r].fetches
              /\ last'.img = NoImg
              /\ cache' = cache ]_vars

C11_Witness ==
  /\ variant = "image"
  /\ last.pc = "done"
  /\ last.ev = "body"
  /\ last.html # <<>>
  /\ NoOgImagePattern(last.html)
  /\ last.resp = imageFallbackResponse("Preview unavailable")
  /\ cache[last.key] # NoEntry

(***************************************************************************)
(* C12  extractOgImage returns the content value X of the og:image tag,    *)
(* whatever the order of the two attributes, the letter case of the names  *)
(* and the quotes, for every non-empty X (the other quote character may    *)
(* occur in X); of two og:image tags the first in the document gives the   *)
(* result; a page whose tags only have og:image:width / og:image:height    *)
(* properties gives null.                                                  *)
(***************************************************************************)
OgImageTags(p) == { i \in 1..Len(p) : p[i].prop = <<"og:image">> }

FirstInDocument(p) ==
  IF OgImageTags(p) = {} THEN NoImg ELSE p[Min(OgImageTags(p))].x

C12_ExtractsContent ==
  extracted.done => extracted.img = FirstInDocument(page)

(***************************************************************************)
(* C13  Image variant, requests running concurrently: the cache is a map   *)
(* from keys to single entries; a request that resolves an image writes    *)
(* {img, ts: now} under its own key over whatever the key held, with a ts  *)
(* not below the one it replaces, and leaves every other key as it was;    *)
(* nothing else changes the cache, so a key always holds what its last     *)
(* writer wrote.                                                           *)
(***************************************************************************)
Writes(r) ==
  /\ Returns(r)
  /\ req[r].pc = "read"
  /\ last'.ev = "body"
  /\ last'.img # NoImg

C13_LastWriterWins ==
  [][ /\ DOMAIN cache' = Keys
      /\ \A r \in Requests :
           Writes(r)
           => /\ cache'[last'.key] = [img |-> last'.img, ts |-> now]
              /\ cache'[last'.key].ts >= cache[last'.key].ts
              /\ \A k \in Keys \ {last'.key} : cache'[k] = cache[k]
      /\ cache' # cache => \E r \in Requests : Writes(r) ]_vars

\* A request that missed the cache wrote over the fresh entry of a
\* concurrent request that had resolved another image.
C13_Witness ==
  /\ last.pc = "done"
  /\ ~last.hit
  /\ last.replaced # NoEntry
  /\ now - last.replaced.ts < CACHE_TTL_MS
  /\ last.replaced.img # last.img
  /\ cache[last.key] = [img |-> last.img, ts |-> now]

(***************************************************************************)
(* C14  A failure of the body read that is not cancellation-shaped ends    *)
(* the request with the generic-failure response (500 / 'Preview           *)
(* unavailable') and no further outbound fetch: the request does not go    *)
(* into the retry delay.                                                   *)
(***************************************************************************)
\* r handles a failure of res.text() in this step.
ReadFails(r) ==
  /\ req[r].pc = "read"
  /\ \/ Returns(r) /\ last'.ev = "readErr"
     \/ req'[r].pc = "backoff"

C14_ReadFailureNotRetried ==
  [][ \A r \in Requests :
        ( /\ ReadFails(r)
          /\ ~isAbortLikeError(IF Returns(r) THEN last'.err ELSE req'[r].err) )
        => /\ Returns(r)
           /\ last'.resp = FailureResponse(variant)
           /\ last'.fetches = req[r].fetches ]_vars

(***************************************************************************)
(* C15  An error thrown by the outbound fetch or by the body read counts   *)
(* as cancellation exactly when it, or its direct cause, is named          *)
(* AbortError, has the code ECONNRESET or UND_ERR_ABORTED, or has a        *)
(* message that mentions "aborted" in any letter case; a thrown null does  *)
(* not.  Every such error, at the first or the second attempt and whether  *)
(* or not the caller aborted, ends the request with the cancellation-      *)
(* shaped response, with no delay and no further outbound fetch; every     *)
(* other error is a genuine failure: the retry delay or the generic-       *)
(* failure response.                                                       *)
(***************************************************************************)
CancellationShaped(e) ==
  /\ ~e.nil
  /\ \E part \in { [name |-> e.name, code |-> e.code, message |-> e.message],
                   e.cause } :
        \/ part.name = "AbortError"
        \/ part.code \in {"ECONNRESET", "UND_ERR_ABORTED"}
        \/ \E i \in 1..Len(part.message) :
              part.message[i] \in {"aborted", "ABORTED"}

\* r handles, in this step, an error that fetch() or res.text() threw.
Catches(r) ==
  \/ Returns(r) /\ last'.ev \in {"fetchErr", "readErr", "abort", "timeout", "wake"}
  \/ req[r].pc \in {"fetch", "read"} /\ req'[r].pc = "backoff"

C15_AbortLikeShortCircuits ==
  [][ \A r \in Requests :
        Catches(r)
        => LET e == IF Returns(r) THEN last'.err ELSE req'[r].err
           IN IF CancellationShaped(e)
              THEN /\ Returns(r)
                   /\ last'.resp = CancelledResponse(variant)
                   /\ last'.fetches = req[r].fetches
              ELSE \/ /\ Returns(r)
                      /\ last'.resp = FailureResponse(variant)
                      /\ last'.fetches = req[r].fetches
                   \/ /\ variant = "image"
                      /\ req[r].attempt = 0
                      /\ req'[r].pc = "backoff"
                      /\ req'[r].fetches = req[r].fetches ]_vars

\* The retry of a request whose caller never aborted failed with an error
\* that only the message of its cause marks as a cancellation.
C15_Witness ==
  /\ variant = "image"
  /\ last.pc = "done"
  /\ last.ev = "fetchErr"
  /\ last.attempt = 1
  /\ last.fetches = 2
  /\ ~last.sigAborted
  /\ last.err.name = "TypeError"
  /\ last.err.cause.message = <<"socket", "aborted">>
  /\ last.resp = CancelledResponse("image")

(***************************************************************************)
(* C16  The abort of the caller is observed wherever the request is        *)
(* suspended: in the outbound fetch, in the body read and in the retry     *)
(* delay the abort ends the suspension, and a request whose caller has     *)
(* aborted puts no further fetch on the network.                           *)
(***************************************************************************)
\* The caller of r aborts in this step.
Aborts(r) ==
  /\ req[r].pc \in {"fetch", "read", "backoff"}
  /\ ~req[r].sigAborted
  /\ IF Returns(r) THEN last'.sigAborted ELSE req'[r].sigAborted

C16_AbortAtEverySuspension ==
  [][ \A r \in Requests :
        /\ Aborts(r) => Returns(r)
        /\ (req[r].sigAborted /\ req'[r] # req[r])
           => (IF Returns(r) THEN last' ELSE req'[r]).fetches = req[r].fetches ]_vars

(***************************************************************************)
(* C17  A request makes at most two outbound fetches; it starts the        *)
(* second only from the retry delay, which it enters only when its first   *)
(* outbound fetch failed with an error that is not a cancellation; its     *)
(* attempt counter is its own: a step of one request leaves every other    *)
(* request as it was, and a request arrives with attempt 0 whatever the    *)
(* earlier requests did.                                                   *)
(***************************************************************************)
\* The activation of r after this step.
After(r) == IF Returns(r) THEN last' ELSE req'[r]

C17_AtMostOneRetry ==
  [][ \A r \in Requests :
        req'[r] # req[r]
        => /\ After(r).fetches <= 2
           /\ After(r).fetches \in {req[r].fetches, req[r].fetches + 1}
           /\ (After(r).fetches = 2 /\ req[r].fetches = 1)
              => req[r].pc = "backoff"
           /\ req'[r].pc = "backoff"
              => /\ req[r].pc \in {"fetch", "backoff"}
                 /\ req'[r].fetches = 1
                 /\ ~isAbortLikeError(req'[r].err)
           /\ req[r].pc = "idle"
              => After(r).attempt = 0 /\ After(r).fetches <= 1
           /\ \A p \in Requests \ {r} : req'[p] = req[p] ]_vars

(***************************************************************************)
(* C18  Image variant: an entry of 24 h or more is not served and not      *)
(* deleted.  A request for its key that ends without the redirect (its     *)
(* resolution failed or was cancelled) has made an outbound fetch and      *)
(* leaves the entry as it was; a request that ends with the redirect has   *)
(* put {img, ts: now} in its place; no entry ever disappears.              *)
(***************************************************************************)
Expired(e) == e # NoEntry /\ now - e.ts >= CACHE_TTL_MS

C18_ExpiredEntryKept ==
  [][ /\ \A k \in Keys : cache[k] # NoEntry => cache'[k] # NoEntry
      /\ \A r \in Requests :
           ( /\ variant = "image"
             /\ Returns(r)
             /\ Accepted(last')
             /\ Expired(cache[last'.key]) )
           => /\ ~last'.hit
              /\ last'.fetches >= 1
              /\ IF last'.resp.status = 302
                 THEN cache'[last'.key] = [img |-> last'.img, ts |-> now]
                 ELSE cache'[last'.key] = cache[last'.key] ]_vars

(***************************************************************************)
(* C19  Every request that was accepted and is suspended returns in the    *)
(* end, also when the upstream never answers and the caller never aborts.  *)
(***************************************************************************)
C19_EventuallyReturns ==
  \A r \in Requests :
    (req[r].pc \in {"fetch", "read", "backoff"}) ~> (req[r].pc = "gone")

(***************************************************************************)
(* C20  Image variant: every key that has an entry is a normalised URL of  *)
(* the host postimg.cc, and the img of every entry is a non-empty          *)
(* og:image value that a request for that key extracted from the body of   *)
(* a success-status answer to its own outbound fetch; a request rejected   *)
(* by the validation leaves the cache as it was.                           *)
(***************************************************************************)
C20_StateOk ==
  \A k \in DOMAIN cache :
    cache[k] # NoEntry
    => /\ variant = "image"
       /\ k[1] = "https:" /\ k[2] = "postimg.cc" /\ k[3] # ""
       /\ cache[k].img # NoImg

C20_CacheContent ==
  [][ /\ C20_StateOk'
      /\ \A k \in DOMAIN cache :
           cache'[k] # cache[k]
           => \E r \in Requests :
                /\ Returns(r)
                /\ req[r].pc = "read"
                /\ req[r].fetches >= 1
                /\ req[r].key = k
                /\ last'.key = k
                /\ last'.img = extractOgImage(last'.html)
                /\ cache'[k].img = last'.img
      /\ \A r \in Requests :
           (Returns(r) /\ Rejected(last')) => cache' = cache ]_vars

\* A request for another host was turned away while the cache held an
\* entry; the entry is still the only one.
C20_Witness ==
  /\ Rejected(last)
  /\ last.url.host = "evil.example.com"
  /\ \E k \in DOMAIN cache :
       /\ cache[k] # NoEntry
       /\ k[2] = "postimg.cc"
       /\ \A j \in DOMAIN cache \ {k} : cache[j] = NoEntry

(***************************************************************************)
(* C21  Image variant: a request that ends with a placeholder (url         *)
(* missing, invalid or not allowed, cancelled, upstream failure,           *)
(* non-success status, no og:image) or that is served from the cache       *)
(* leaves the cache as it was; the cache changes only in the step in       *)
(* which a request ends with the 302 to the image it has just extracted.   *)
(***************************************************************************)
C21_CacheFrame ==
  [][ variant = "image"
      => /\ \A r \in Requests :
              Returns(r)
              => \/ /\ ~last'.hit
                    /\ last'.img # NoImg
                    /\ last'.resp = Redirect(last'.img)
                 \/ cache' = cache
         /\ cache' # cache
            => \E r \in Requests :
                 /\ Returns(r)
                 /\ ~last'.hit
                 /\ last'.resp = Redirect(last'.img) ]_vars

(***************************************************************************)
(* C22  LoadingScreen: once the loading sequence has finished (finish ran: *)
(* the deleting animation reached the empty text, or the overlay was       *)
(* clicked, or Skip or Escape was pressed), onDone is eventually called,   *)
(* whatever effect clean-ups and re-runs and renders of Home with a new    *)
(* onDone function come in between.  Timers that are set fire and effects  *)
(* of a render run (SpecLoadingLive).                                      *)
(***************************************************************************)
C22_OnDoneEventually == screen.doneRef ~> screen.onDone >= 1

(***************************************************************************)
(* C23  LoadingScreen: under any sequence of clicks, Skip presses, Escape  *)
(* presses and timer ticks, onDone is called at most once, and once        *)
(* finish has run no step changes txt or phase, nor takes the finish       *)
(* back: the animation does not resume.                                    *)
(***************************************************************************)
C23_FinishOnce ==
  [][ /\ screen'.onDone <= 1
      /\ screen.doneRef
         => /\ screen'.doneRef
            /\ screen'.txt = screen.txt
            /\ screen'.phase = screen.phase ]_vars

\* The sequence was finished by a press in the middle of the animation,
\* the effects ran again after a render of Home, and the tick they had
\* scheduled fired and left the text alone.
C23_Witness ==
  /\ screen.doneRef
  /\ screen.renders >= 1
  /\ screen.timeoutRef.fn = "tick"
  /\ screen.timers = {}
  /\ screen.txt > 0

(***************************************************************************)
(* C24  What a request holds is released on every path.  Strict variant:   *)
(* when the work has settled (with a response, with an error, or after     *)
(* the caller's abort had already won the race) the 8 s timer is no        *)
(* longer armed, so it fires only on a request that is still suspended.    *)
(* Image variant: the abort listener is registered on no path that ends    *)
(* in the validation or in the cache, and on every other path it is gone   *)
(* when the handler has returned.                                          *)
(***************************************************************************)
C24_ResourcesReleased ==
  /\ \A r \in Requests : req[r].pc = "gone" => req[r].timer = "none"
  /\ (last.pc = "done" /\ variant = "strict")
     => /\ last.timer # "armed"
        /\ last.fetches >= 1 => last.timer \in {"cleared", "fired"}
        /\ last.timer = "fired" => last.ev = "timeout" /\ last.at \in {"fetch", "read"}
  /\ (last.pc = "done" /\ variant = "image")
     => /\ ~last.listener
        /\ (Rejected(last) \/ last.hit) => ~last.listened
        /\ (Accepted(last) /\ ~last.hit) => last.listened

\* The caller aborted during the body read: the abort won the race and the
\* timer was cleared when the work settled.
C24_Witness ==
  /\ variant = "strict"
  /\ last.pc = "done"
  /\ last.sigAborted
  /\ last.at = "read"
  /\ last.resp = CancelledResponse("strict")
  /\ last.timer = "cleared"

=============================================================================
